---- MODULE Spec2Model ----
(***************************************************************************)
(* Model of the Bangla plagiarism checker front end:                       *)
(*   - the text utilities of utils/api.ts (preprocessBanglaText,           *)
(*     extractSentences),                                                  *)
(*   - apiService.checkPlagiarism (request, response translation, errors), *)
(*   - the HomePage handlers of pages/index.tsx that call it, with the     *)
(*     TextInput and FileUpload components.                                *)
(*                                                                         *)
(* Numbers are fixed point, in hundredths: 70 stands for 0.70, 7000 for    *)
(* 70.00.  A string of text is a sequence of characters, each character a  *)
(* one-token string (SP, NL, ZWNJ, ...).                                   *)
(***************************************************************************)
EXTENDS Integers, Sequences, FiniteSets, TLC

VARIABLES
    text,               \* TextSpec: the string preprocessBanglaText works on
    applied,            \* how often the text utility under study was applied to text
    sentences,          \* SentenceSpec: what extractSentences returned for text
    call,               \* the checkPlagiarism invocation (arguments, request, outcome)
    previous,           \* RepeatSpec: the checkPlagiarism invocation before call
    extractedText,      \* HomePage state
    plagiarismResults,  \* HomePage state: <<>> is null, <<r>> a report
    isChecking,         \* HomePage state
    activeTab,          \* HomePage state
    isExtracting,       \* HomePage state
    inputText,          \* TextInput state `text`
    uploadedFile,       \* FileUpload state: <<>> is null, <<f>> a file
    extractionStatus,   \* FileUpload state
    extraction          \* the handleFileUpload / extractText invocation

vars == <<text, applied, sentences, call, previous, extractedText,
          plagiarismResults, isChecking, activeTab, isExtracting, inputText,
          uploadedFile, extractionStatus, extraction>>

textVars == <<text, applied, sentences>>
homeVars == <<extractedText, plagiarismResults, isChecking, activeTab, isExtracting>>
uploadVars == <<uploadedFile, extractionStatus, extraction>>
pageVars == <<homeVars, inputText, uploadVars>>

----------------------------------------------------------------------------
(* Bounds *)

MaxTextLen == 5      \* longest input of preprocessBanglaText
MaxApply == 2        \* preprocessBanglaText is applied at most this often
MaxMatches == 2      \* longest matches array of a backend response
MaxSentenceLen == 5  \* longest input of extractSentences

----------------------------------------------------------------------------
(* Characters *)

SP == " "            \* U+0020
NL == "\n"           \* U+000A, a whitespace character other than the space
ZWNJ == "ZWNJ"       \* U+200C zero-width non-joiner
ZWJ == "ZWJ"         \* U+200D zero-width joiner
DANDA == "DANDA"     \* U+0964, the Bangla sentence terminator
BANG == "!"
QUESTION == "?"
U09C7 == "U09C7"     \* vowel sign E
U09BE == "U09BE"     \* vowel sign AA
U09CB == "U09CB"     \* vowel sign O, canonically equivalent to U09C7 U09BE

Alphabet == {"a", SP, NL, ZWNJ, ZWJ, DANDA, U09C7, U09BE, U09CB}

\* The JavaScript class \s (and what String.prototype.trim strips): U+200C and
\* U+200D are not in it.
IsSpace(c) == c \in {SP, NL}

----------------------------------------------------------------------------
(* Text utilities *)

\* text.replace(/\s+/g, ' '): every maximal run of whitespace becomes one space.
RECURSIVE ReplaceWhitespaceRuns(_, _)
ReplaceWhitespaceRuns(s, i) ==
    IF i > Len(s) THEN <<>>
    ELSE IF IsSpace(s[i])
         THEN (IF i > 1 /\ IsSpace(s[i - 1]) THEN <<>> ELSE <<SP>>)
              \o ReplaceWhitespaceRuns(s, i + 1)
         ELSE <<s[i]>> \o ReplaceWhitespaceRuns(s, i + 1)

\* text.replace(/c/g, ''): every occurrence of the character c is removed.
RemoveChar(s, c) == SelectSeq(s, LAMBDA x : x # c)

\* text.normalize('NFC'): canonical composition; U09C7 U09BE composes to U09CB.
RECURSIVE NFC(_)
NFC(s) ==
    IF Len(s) = 0 THEN <<>>
    ELSE IF Len(s) >= 2 /\ s[1] = U09C7 /\ s[2] = U09BE
         THEN <<U09CB>> \o NFC(SubSeq(s, 3, Len(s)))
         ELSE <<s[1]>> \o NFC(Tail(s))

RECURSIVE TrimStart(_)
TrimStart(s) ==
    IF Len(s) > 0 /\ IsSpace(s[1]) THEN TrimStart(Tail(s)) ELSE s

RECURSIVE TrimEnd(_)
TrimEnd(s) ==
    IF Len(s) > 0 /\ IsSpace(s[Len(s)])
    THEN TrimEnd(SubSeq(s, 1, Len(s) - 1)) ELSE s

\* String.prototype.trim
Trim(s) == TrimEnd(TrimStart(s))

preprocessBanglaText(s) ==
    LET t1 == ReplaceWhitespaceRuns(s, 1)
        t2 == RemoveChar(t1, ZWNJ)
        t3 == RemoveChar(t2, ZWJ)
        t4 == NFC(t3)
    IN  Trim(t4)

\* The character class [।!?]
IsTerminator(c) == c \in {DANDA, BANG, QUESTION}

\* text.split(/[।!?]+/) from position i on, cur being the fragment read so far:
\* every maximal run of terminators ends a fragment, and the text before the
\* first run and after the last one is a fragment even when it is empty.
RECURSIVE SplitOnTerminators(_, _, _)
SplitOnTerminators(s, i, cur) ==
    IF i > Len(s) THEN <<cur>>
    ELSE IF IsTerminator(s[i])
         THEN IF i > 1 /\ IsTerminator(s[i - 1])
              THEN SplitOnTerminators(s, i + 1, cur)
              ELSE <<cur>> \o SplitOnTerminators(s, i + 1, <<>>)
         ELSE SplitOnTerminators(s, i + 1, Append(cur, s[i]))

\* .filter(s => s.trim().length > 0)
FilterNonBlank(fragments) == SelectSeq(fragments, LAMBDA f : Trim(f) # <<>>)

\* .map(s => s.trim())
MapTrim(fragments) == [i \in 1..Len(fragments) |-> Trim(fragments[i])]

\* extractSentences without the filter: empty fragments are kept.
extractSentences_KeepsEmpty(s) == MapTrim(SplitOnTerminators(s, 1, <<>>))

\* extractSentences without the final map: fragments keep their outer whitespace.
extractSentences_NoTrim(s) == FilterNonBlank(SplitOnTerminators(s, 1, <<>>))

extractSentences(s) == MapTrim(FilterNonBlank(SplitOnTerminators(s, 1, <<>>)))

\* The strings of at most n characters.
Texts(n) == UNION {[1..k -> Alphabet] : k \in 0..n}

----------------------------------------------------------------------------
(* JavaScript values.  t is the type, n the number (hundredths) or the      *)
(* boolean (1 / 0), s the string.                                           *)

Undef == [t |-> "undefined", n |-> 0, s |-> ""]
Null == [t |-> "null", n |-> 0, s |-> ""]
NaN == [t |-> "NaN", n |-> 0, s |-> ""]
Num(x) == [t |-> "number", n |-> x, s |-> ""]
Whole(k) == Num(100 * k)
Str(x) == [t |-> "string", n |-> 0, s |-> x]
Bool(b) == [t |-> "boolean", n |-> IF b THEN 1 ELSE 0, s |-> ""]

\* v is a number other than NaN.
IsNum(v) == v.t = "number"

\* ToBoolean: undefined, null, NaN, 0, '' and false are falsy.
Truthy(v) ==
    CASE v.t = "number" -> v.n # 0
      [] v.t = "string" -> v.s # ""
      [] v.t = "boolean" -> v.n = 1
      [] OTHER -> FALSE

\* a || b
Or(a, b) == IF Truthy(a) THEN a ELSE b

\* v * 100
Times100(v) == IF IsNum(v) THEN Num(v.n * 100) ELSE NaN

\* v > c for a number c (hundredths): false when v is undefined or NaN
Gt(v, c) == IsNum(v) /\ v.n > c

----------------------------------------------------------------------------
(* apiService.checkPlagiarism: the request *)

DefaultThreshold == 70       \* 0.7

GenericCheckError == "plagiarism check failed"   \* the Bangla text of lines 161, 199

\* PlagiarismCheckOptions; a field that is not supplied is Undef.
Options(threshold, checkParaphrase) ==
    [threshold |-> threshold, checkParaphrase |-> checkParaphrase, language |-> Undef]

NoOptions == Options(Undef, Undef)

requestData(txt, options) ==
    [text |-> txt,
     threshold |-> Or(options.threshold, Num(DefaultThreshold)),
     check_paraphrase |-> options.checkParaphrase # Bool(FALSE),
     language |-> Or(options.language, Str("bangla"))]

----------------------------------------------------------------------------
(* The HTTP outcomes of POST /check-plagiarism *)

\* One entry of rawData.matches that is an object.
BackendMatch(score, start, end, type, title, matched, source) ==
    [entry |-> "object",
     similarity_score |-> score, start_position |-> start, end_position |-> end,
     match_type |-> type, source_title |-> title, matched_text |-> matched,
     source_text |-> source]

\* An entry of rawData.matches that is null.
NullMatch ==
    [BackendMatch(Undef, Undef, Undef, Undef, Undef, Undef, Undef) EXCEPT !.entry = "null"]

\* rawData.analysis, when the body has one.
BackendAnalysis(avg, risk, total) ==
    [present |-> TRUE, average_similarity |-> avg, risk_level |-> risk,
     total_sentences |-> total]

NoAnalysis ==
    [present |-> FALSE, average_similarity |-> Undef, risk_level |-> Undef,
     total_sentences |-> Undef]

\* An HTTP outcome.  kind "ok" is a 2xx response whose body is the object
\* rawData; "httpError" a response with an error status (axios rejects, the
\* error carries response.data.detail); "network" and "timeout" are rejections
\* without a response.
Response(kind, status, detail, hasSuccess, success, message, overall, hasMatches, matches, analysis, time) ==
    [kind |-> kind, status |-> status, detail |-> detail,
     hasSuccess |-> hasSuccess, success |-> success, message |-> message,
     overall_similarity |-> overall, hasMatches |-> hasMatches, matches |-> matches,
     analysis |-> analysis, processing_time |-> time]

OkBody(hasSuccess, overall, hasMatches, matches, analysis, time) ==
    Response("ok", 200, Undef, hasSuccess, IF hasSuccess THEN Bool(TRUE) ELSE Undef,
             Undef, overall, hasMatches, matches, analysis, time)

FailBody(message) ==
    Response("ok", 200, Undef, TRUE, Bool(FALSE), message, Undef, FALSE, <<>>,
             NoAnalysis, Undef)

HttpError(status, detail) ==
    Response("httpError", status, detail, FALSE, Undef, Undef, Undef, FALSE, <<>>,
             NoAnalysis, Undef)

NoResponse(kind) ==
    Response(kind, 0, Undef, FALSE, Undef, Undef, Undef, FALSE, <<>>, NoAnalysis, Undef)

\* The backend signals that the check failed.
SignalsFailure(resp) ==
    \/ resp.kind = "httpError"
    \/ resp.kind = "ok" /\ resp.hasSuccess /\ ~Truthy(resp.success)

----------------------------------------------------------------------------
(* apiService.checkPlagiarism: the translation of rawData *)

\* rawData.matches || []: hasMatches is false for a missing and for a null matches.
MatchesOrEmpty(rawData) == IF rawData.hasMatches THEN rawData.matches ELSE <<>>

\* rawData.analysis?.field: present is false for a missing and for a null analysis.
AnalysisField(rawData, field) ==
    IF rawData.analysis.present THEN rawData.analysis[field] ELSE Undef

\* The percentage without the default for a missing or NaN overall_similarity.
overallScore_NoDefault(rawData) == Times100(rawData.overall_similarity)

overallScore(rawData) == Times100(Or(rawData.overall_similarity, Num(0)))

\* The match type copied from the response as it came.
matchType_Copy(match) == match.match_type.s

matchType(match) == IF match.match_type = Str("exact") THEN "exact" ELSE "paraphrase"

transformMatch(match) ==
    [similarity |-> Or(match.similarity_score, Num(0)),
     source |-> Or(match.source_title, Str("Unknown Source")),
     sourceTitle |-> match.source_title,
     matchedText |-> Or(match.matched_text, Str("")),
     originalText |-> Or(match.source_text, Str("")),
     startIndex |-> Or(match.start_position, Num(0)),
     endIndex |-> Or(match.end_position, Num(0)),
     type |-> matchType(match)]

\* Lines 169 and 181-182 read a property of every entry of rawData.matches: a
\* null entry makes that read throw a TypeError.
TranslationThrows(rawData) ==
    \E i \in 1..Len(MatchesOrEmpty(rawData)) : MatchesOrEmpty(rawData)[i].entry = "null"

transformMatches(rawData) ==
    [i \in 1..Len(MatchesOrEmpty(rawData)) |-> transformMatch(MatchesOrEmpty(rawData)[i])]

\* (rawData.matches || []).filter(m => m.match_type === 'exact').length
exactMatches(rawData) ==
    Whole(Cardinality({i \in 1..Len(MatchesOrEmpty(rawData)) :
                          MatchesOrEmpty(rawData)[i].match_type = Str("exact")}))

\* The count of the entries whose match_type is 'paraphrase'.
paraphraseMatches_OnlyParaphrase(rawData) ==
    Whole(Cardinality({i \in 1..Len(MatchesOrEmpty(rawData)) :
                          MatchesOrEmpty(rawData)[i].match_type = Str("paraphrase")}))

\* (rawData.matches || []).filter(m => m.match_type !== 'exact').length
paraphraseMatches(rawData) ==
    Whole(Cardinality({i \in 1..Len(MatchesOrEmpty(rawData)) :
                          MatchesOrEmpty(rawData)[i].match_type # Str("exact")}))

avgSimilarity(rawData) ==
    Or(Or(AnalysisField(rawData, "average_similarity"), rawData.overall_similarity),
       Num(0))

riskLevel(rawData) ==
    Or(AnalysisField(rawData, "risk_level"),
       IF Gt(rawData.overall_similarity, 70) THEN Str("high")
       ELSE IF Gt(rawData.overall_similarity, 30) THEN Str("medium")
       ELSE Str("low"))

\* text.trim().split(/\s+/).length: an empty string splits into one (empty) word.
RECURSIVE CountWordStarts(_, _)
CountWordStarts(s, i) ==
    IF i > Len(s) THEN 0
    ELSE (IF ~IsSpace(s[i]) /\ (i = 1 \/ IsSpace(s[i - 1])) THEN 1 ELSE 0)
         + CountWordStarts(s, i + 1)

wordCount(txt) ==
    IF Trim(txt) = <<>> THEN Whole(1) ELSE Whole(CountWordStarts(Trim(txt), 1))

\* The translation with a matches list kept between calls: the matches of the
\* invocation before are still in it when the next report is built.
transformedResult_Accumulating(txt, rawData) ==
    [overallScore |-> overallScore(rawData),
     matches |-> (IF previous.pc = "returned" THEN previous.result[1].matches ELSE <<>>)
                 \o transformMatches(rawData),
     analysis |->
        [totalMatches |-> Whole(Len(MatchesOrEmpty(rawData))),
         exactMatches |-> exactMatches(rawData),
         paraphraseMatches |-> paraphraseMatches(rawData),
         avgSimilarity |-> avgSimilarity(rawData),
         riskLevel |-> riskLevel(rawData)],
     processedText |-> txt,
     wordCount |-> wordCount(txt),
     sentenceCount |-> Or(AnalysisField(rawData, "total_sentences"), Whole(1)),
     processingTime |-> Or(rawData.processing_time, Num(0))]

transformedResult(txt, rawData) ==
    [overallScore |-> overallScore(rawData),
     matches |-> transformMatches(rawData),
     analysis |->
        [totalMatches |-> Whole(Len(MatchesOrEmpty(rawData))),
         exactMatches |-> exactMatches(rawData),
         paraphraseMatches |-> paraphraseMatches(rawData),
         avgSimilarity |-> avgSimilarity(rawData),
         riskLevel |-> riskLevel(rawData)],
     processedText |-> txt,
     wordCount |-> wordCount(txt),
     sentenceCount |-> Or(AnalysisField(rawData, "total_sentences"), Whole(1)),
     processingTime |-> Or(rawData.processing_time, Num(0))]

----------------------------------------------------------------------------
(* apiService.checkPlagiarism: the invocation *)

\* superseded is bookkeeping the code does not keep: the page cleared or
\* replaced its text while the request of this invocation was in flight.
IdleCall ==
    [pc |-> "idle", origin |-> "none", text |-> <<>>, options |-> NoOptions,
     request |-> <<>>, response |-> <<>>, result |-> <<>>, error |-> "",
     toastSuccess |-> FALSE, superseded |-> FALSE]

\* Lines 145-154: requestData is built and posted; nothing is checked first.
PostRequest(origin, txt, options) ==
    [pc |-> "awaiting", origin |-> origin, text |-> txt, options |-> options,
     request |-> <<requestData(txt, options)>>, response |-> <<>>, result |-> <<>>,
     error |-> "", toastSuccess |-> FALSE, superseded |-> FALSE]

\* Lines 194-200: the catch block throws response.data.detail when the caught
\* error has one, and the generic message for every other error.
CatchMessage(hasResponse, detail) ==
    IF hasResponse /\ Truthy(detail) THEN detail.s ELSE GenericCheckError

Threw(c, resp, message) ==
    [c EXCEPT !.pc = "threw", !.response = <<resp>>, !.error = message]

Returned(c, resp) ==
    [c EXCEPT !.pc = "returned", !.response = <<resp>>,
              !.result = <<transformedResult(c.text, resp)>>,
              !.toastSuccess = TRUE]

\* The success flag of the body is not looked at: a body that reports a failure
\* is translated like any other.
Settle_IgnoresSuccessFlag(c, resp) ==
    IF resp.kind = "ok"
    THEN IF TranslationThrows(resp)
         THEN Threw(c, resp, CatchMessage(FALSE, Undef))
         ELSE Returned(c, resp)
    ELSE Threw(c, resp, CatchMessage(resp.kind = "httpError", resp.detail))

\* Lines 154-200: what the invocation c does once the POST settles with resp.
Settle(c, resp) ==
    IF resp.kind = "ok"
    THEN IF resp.hasSuccess /\ ~Truthy(resp.success)
         THEN \* line 161 throws Error(message) inside the try: line 194 catches it
              Threw(c, resp, CatchMessage(FALSE, Undef))
         ELSE IF TranslationThrows(resp)
         THEN \* the TypeError is thrown inside the try as well
              Threw(c, resp, CatchMessage(FALSE, Undef))
         ELSE Returned(c, resp)
    ELSE Threw(c, resp, CatchMessage(resp.kind = "httpError", resp.detail))

----------------------------------------------------------------------------
(* Initial state of the page *)

\* The handleFileUpload invocation: pc "returned" / "threw" is how extractText
\* ended, mounted whether the FileUpload that started it is still rendered,
\* toast the toast of FileUpload.onDrop for it.
IdleExtraction == [pc |-> "idle", mounted |-> FALSE, toast |-> "none"]

\* The page cleared or replaced its text: a check in flight is now superseded.
Supersede(c) == IF c.pc = "awaiting" THEN [c EXCEPT !.superseded = TRUE] ELSE c

\* useState initial values of HomePage, TextInput and FileUpload.
PageInit ==
    /\ extractedText = <<>>
    /\ plagiarismResults = <<>>
    /\ isExtracting = FALSE
    /\ isChecking = FALSE
    /\ activeTab = "upload"
    /\ inputText = <<>>
    /\ uploadedFile = <<>>
    /\ extractionStatus = "idle"
    /\ extraction = IdleExtraction

----------------------------------------------------------------------------
(* Bounded inputs *)

ApiTexts == {<<>>, <<SP>>, <<"a", SP, "a">>}

ThresholdValues == {Undef, Num(0), Num(50), Num(150)}

ApiOptions ==
    {Options(th, cp) : th \in ThresholdValues, cp \in {Undef, Bool(FALSE)}}

ScoreValues == {Undef, Num(50), Num(90)}

PositionValues == {<<Undef, Undef>>, <<Whole(0), Whole(2)>>, <<Whole(1), Whole(2)>>}

BackendMatches ==
    {BackendMatch(sc, pos[1], pos[2], ty, Str("doc"), Str("ab"), Str("ab")) :
        sc \in ScoreValues, pos \in PositionValues,
        ty \in {Str("exact"), Str("semantic")}}
    \cup {BackendMatch(Undef, Undef, Undef, Undef, Undef, Undef, Undef),
          BackendMatch(Null, Null, Null, Null, Null, Null, Null),
          BackendMatch(Num(150), Whole(0), Whole(2), Str("exact"), Str("doc"), Str("ab"), Str("ab")),
          NullMatch}

MatchLists(n) == UNION {[1..k -> BackendMatches] : k \in 0..n}

OverallValues ==
    {Undef, Null, NaN, Num(0), Num(30), Num(50), Num(70), Num(100), Num(150)}

Analyses ==
    {NoAnalysis, BackendAnalysis(Null, Null, Null)} \cup
    {BackendAnalysis(avg, risk, sent) :
        avg \in {Undef, Num(0), Num(60)},
        risk \in {Undef, Str("high"), Str("critical")},
        sent \in {Undef, Whole(3)}}

OneMatch == BackendMatch(Num(90), Whole(0), Whole(2), Str("exact"), Str("doc"), Str("ab"), Str("ab"))

\* Bodies that vary the matches array.
BodiesByMatches ==
    {OkBody(FALSE, Num(50), TRUE, ms, NoAnalysis, Undef) : ms \in MatchLists(MaxMatches)}

\* Bodies that vary the scalar fields.
BodiesByScore ==
    {OkBody(hs, ov, hm, IF hm THEN ms ELSE <<>>, an, tm) :
        hs \in BOOLEAN, ov \in OverallValues, hm \in BOOLEAN,
        ms \in {<<>>, <<OneMatch>>}, an \in Analyses, tm \in {Undef, Null, Num(120)}}

Failures ==
    {FailBody(m) : m \in {Undef, Str("no segment could be scored")}}
    \cup {HttpError(st, d) : st \in {400, 500}, d \in {Undef, Str("model not loaded")}}
    \cup {NoResponse("network"), NoResponse("timeout")}

Responses == BodiesByMatches \cup BodiesByScore \cup Failures

----------------------------------------------------------------------------
(* ApiSpec: checkPlagiarism called with every bounded argument, answered   *)
(* with every bounded response.                                            *)

ApiInit ==
    /\ text = <<>>
    /\ applied = 0
    /\ sentences = <<>>
    /\ call = IdleCall
    /\ previous = IdleCall
    /\ PageInit

ApiCall ==
    /\ call.pc = "idle"
    /\ \E txt \in ApiTexts, options \in ApiOptions :
          call' = PostRequest("api", txt, options)
    /\ UNCHANGED <<textVars, previous, pageVars>>

ApiSettle ==
    /\ call.pc = "awaiting"
    /\ \E resp \in Responses : call' = Settle(call, resp)
    /\ UNCHANGED <<textVars, previous, pageVars>>

\* The caller has the report or the error; the next call can start.
ApiDone ==
    /\ call.pc \in {"returned", "threw"}
    /\ call' = IdleCall
    /\ UNCHANGED <<textVars, previous, pageVars>>

ApiNext == ApiCall \/ ApiSettle \/ ApiDone

ApiSpec == ApiInit /\ [][ApiNext]_vars

----------------------------------------------------------------------------
(* Claims about checkPlagiarism (ApiSpec) *)

HasReport == call.pc = "returned"
Report == call.result[1]
Request == call.request[1]
RawData == call.response[1]
ReportMatches == {Report.matches[i] : i \in 1..Len(Report.matches)}

\* A supplied threshold lies in [0,1].
ThresholdInRange(th) == th = Undef \/ (IsNum(th) /\ th.n >= 0 /\ th.n <= 100)

ValidArguments(c) == Trim(c.text) # <<>> /\ ThresholdInRange(c.options.threshold)

\* C2: a call whose text is empty after trimming, or whose threshold is outside
\* [0,1], posts no request and fails.
C2_ValidatedBeforePost ==
    (call.pc # "idle" /\ ~ValidArguments(call)) =>
        (call.request = <<>> /\ call.pc = "threw")

\* C3: every match of a returned report has
\* 0 <= startIndex < endIndex <= len(originalText).
C3_OffsetsValid ==
    HasReport =>
        \A m \in ReportMatches :
            /\ IsNum(m.startIndex) /\ IsNum(m.endIndex)
            /\ 0 <= m.startIndex.n
            /\ m.startIndex.n < m.endIndex.n
            /\ m.endIndex.n <= 100 * Len(m.originalText.s)

RiskClass(ov) ==
    IF IsNum(ov) /\ ov.n >= 70 THEN "high"
    ELSE IF IsNum(ov) /\ ov.n >= 30 THEN "medium"
    ELSE "low"

\* C5: riskLevel is 'high' from 0.7 on, 'medium' from 0.3 on, 'low' below.
C5_RiskLevelByScore ==
    HasReport =>
        Report.analysis.riskLevel = Str(RiskClass(RawData.overall_similarity))

RECURSIVE SumSimilarity(_)
SumSimilarity(ms) ==
    IF ms = <<>> THEN 0 ELSE Head(ms).similarity.n + SumSimilarity(Tail(ms))

\* C6: avgSimilarity is the mean similarity of the matches of the report
\* (0 when the report has none).
C6_AvgOverMatches ==
    HasReport =>
        /\ IsNum(Report.analysis.avgSimilarity)
        /\ Report.analysis.avgSimilarity.n * Len(Report.matches)
              = SumSimilarity(Report.matches)
        /\ (Report.matches = <<>> => Report.analysis.avgSimilarity.n = 0)

\* The failure message the backend supplied with resp, "" when it supplied none.
SuppliedMessage(resp) ==
    IF resp.kind = "httpError" /\ Truthy(resp.detail) THEN resp.detail.s
    ELSE IF resp.kind = "ok" /\ resp.hasSuccess /\ ~Truthy(resp.success)
            /\ Truthy(resp.message) THEN resp.message.s
    ELSE ""

\* C8: the Error thrown for a rejected check carries the backend's message.
C8_MessageVerbatim ==
    (call.pc = "threw" /\ SuppliedMessage(RawData) # "") =>
        call.error = SuppliedMessage(RawData)

\* C9: no match of a returned report is below the threshold of its request.
C9_NoSubThresholdMatch ==
    HasReport =>
        \A m \in ReportMatches :
            IsNum(m.similarity) /\ m.similarity.n >= Request.threshold.n

\* C10: the matches of a returned report are ordered by similarity descending,
\* ties by ascending start offset.
C10_MatchesOrdered ==
    HasReport =>
        \A i \in 1..(Len(Report.matches) - 1) :
            LET a == Report.matches[i]
                b == Report.matches[i + 1]
            IN  \/ a.similarity.n > b.similarity.n
                \/ a.similarity.n = b.similarity.n /\ a.startIndex.n <= b.startIndex.n

\* C12: a response that reports no matches and zero overall similarity gives a
\* report with matches = [], overallScore = 0 and riskLevel = 'low'.
C12_ScenarioA ==
    (HasReport /\ MatchesOrEmpty(RawData) = <<>> /\ RawData.overall_similarity = Num(0))
        => (/\ Report.matches = <<>>
            /\ Report.overallScore = Num(0)
            /\ Report.analysis.riskLevel = Str("low"))

\* C16: the type of every match of a returned report is 'exact' or
\* 'paraphrase': 'exact' when the backend sent match_type 'exact', and
\* 'paraphrase' for every other, missing or null match_type.
C16_TypeIsLiteral ==
    HasReport =>
        \A i \in 1..Len(Report.matches) :
            /\ Report.matches[i].type \in {"exact", "paraphrase"}
            /\ Report.matches[i].type = "exact"
                  <=> RawData.matches[i].match_type = Str("exact")

\* A report with a match whose match_type was null and one whose match_type
\* was a string the front end does not know.
C16_Witness ==
    /\ HasReport
    /\ Len(Report.matches) = 2
    /\ RawData.matches[1].match_type = Null
    /\ RawData.matches[2].match_type = Str("semantic")
    /\ Report.matches[1].type = "paraphrase"
    /\ Report.matches[2].type = "paraphrase"

\* C17: the riskLevel of every returned report is 'low', 'medium' or 'high'.
C17_RiskLevelInEnum ==
    HasReport => Report.analysis.riskLevel \in {Str("low"), Str("medium"), Str("high")}

\* C18: the similarity of every match of a returned report is a number in
\* [0,1].
C18_SimilarityInUnitInterval ==
    HasReport =>
        \A m \in ReportMatches :
            IsNum(m.similarity) /\ m.similarity.n >= 0 /\ m.similarity.n <= 100

\* Every required field of the PlagiarismResult r holds a value of the
\* JavaScript type it is declared with.
WellTyped(r) ==
    /\ IsNum(r.overallScore)
    /\ \A i \in 1..Len(r.matches) :
          LET m == r.matches[i]
          IN  /\ IsNum(m.similarity) /\ IsNum(m.startIndex) /\ IsNum(m.endIndex)
              /\ m.source.t = "string"
              /\ m.matchedText.t = "string"
              /\ m.originalText.t = "string"
              /\ m.type \in {"exact", "paraphrase"}
    /\ IsNum(r.analysis.totalMatches)
    /\ IsNum(r.analysis.exactMatches)
    /\ IsNum(r.analysis.paraphraseMatches)
    /\ IsNum(r.analysis.avgSimilarity)
    /\ r.analysis.riskLevel.t = "string"
    /\ IsNum(r.wordCount) /\ IsNum(r.sentenceCount) /\ IsNum(r.processingTime)

\* C19: for every body that does not signal failure, checkPlagiarism does not
\* throw and returns a report whose required fields all have a value of
\* their type.
C19_TranslationTotal ==
    (call.pc \in {"returned", "threw"} /\ RawData.kind = "ok" /\ ~SignalsFailure(RawData))
        => (HasReport /\ WellTyped(Report))

\* C21: the request carries the caller's threshold whenever one is supplied
\* (0 included) and 0.7 only when none is; check_paraphrase is false only when
\* checkParaphrase is explicitly false.
C21_RequestCarriesOptions ==
    call.pc # "idle" =>
        /\ Request.threshold =
              (IF call.options.threshold = Undef THEN Num(DefaultThreshold)
               ELSE call.options.threshold)
        /\ Request.check_paraphrase = (call.options.checkParaphrase # Bool(FALSE))

\* C23: a check that ran into the request deadline returns a report (the
\* partial one), not an error.
C23_TimeoutGivesPartialReport ==
    (call.pc \in {"returned", "threw"} /\ RawData.kind = "timeout") => HasReport

\* The number of matches of the report r whose type is ty.
CountType(r, ty) == Cardinality({i \in 1..Len(r.matches) : r.matches[i].type = ty})

\* C29: in every returned report totalMatches = matches.length =
\* exactMatches + paraphraseMatches, exactMatches is the number of matches of
\* type 'exact' and paraphraseMatches the number of type 'paraphrase'.
C29_CountsAgree ==
    HasReport =>
        /\ Report.analysis.totalMatches = Whole(Len(Report.matches))
        /\ Report.analysis.exactMatches = Whole(CountType(Report, "exact"))
        /\ Report.analysis.paraphraseMatches = Whole(CountType(Report, "paraphrase"))
        /\ Report.analysis.totalMatches.n
              = Report.analysis.exactMatches.n + Report.analysis.paraphraseMatches.n

\* A report with one exact match and one match of a type the front end maps
\* to 'paraphrase'.
C29_Witness ==
    /\ HasReport
    /\ Len(Report.matches) = 2
    /\ RawData.matches[1].match_type = Str("exact")
    /\ RawData.matches[2].match_type = Str("semantic")
    /\ Report.analysis.exactMatches = Whole(1)
    /\ Report.analysis.paraphraseMatches = Whole(1)

----------------------------------------------------------------------------
(* HomePage, TextInput and FileUpload *)

MaxFileSizeMB == 50          \* 50 * 1024 * 1024 bytes

\* What the user types into the textarea, and what /extract-text returns.
InputTexts == {<<>>, <<SP>>, <<"a", SP, "a">>}
ExtractTexts == {<<>>, <<SP>>, <<"b">>}

Files == [type : {"application/pdf", "text/plain"}, sizeMB : {1, 50, 51}]

\* What the backend answers a check started from the page.
PageResponses ==
    {OkBody(TRUE, Num(0), TRUE, <<>>, NoAnalysis, Undef),
     OkBody(TRUE, Num(90), TRUE, <<OneMatch>>, NoAnalysis, Undef),
     FailBody(Str("no segment could be scored")),
     HttpError(500, Str("model not loaded")),
     NoResponse("timeout")}

\* TextInput's effect on [extractedText]: a truthy extractedText replaces text.
TextAfterEffect(current, extracted) ==
    IF extracted # <<>> THEN extracted ELSE current

\* The tab buttons: a component that is not rendered loses its state; an
\* extraction started by an unmounted FileUpload can no longer set its state.
setActiveTab(tab) ==
    /\ tab # activeTab
    /\ activeTab' = tab
    /\ inputText' = IF tab = "text" THEN TextAfterEffect(<<>>, extractedText) ELSE <<>>
    /\ uploadedFile' = <<>>
    /\ extractionStatus' = "idle"
    /\ extraction' = [extraction EXCEPT !.mounted = FALSE]
    /\ UNCHANGED <<extractedText, plagiarismResults, isChecking, isExtracting>>
    /\ UNCHANGED <<textVars, previous, call>>

\* The textarea's onChange, and the clear button of TextInput.
setText(t) ==
    /\ activeTab = "text"
    /\ inputText' = t
    /\ UNCHANGED <<textVars, previous, call, homeVars, uploadVars>>

\* The settings TextInput.handleSubmit passes: threshold 0.7, checkParaphrase true.
SubmitSettings == Options(Num(70), Bool(TRUE))

\* handleSubmit with a submit button that is not disabled while a check runs.
handleSubmit_NotDisabled ==
    /\ activeTab = "text"
    /\ Trim(inputText) # <<>>
    /\ isChecking' = TRUE
    /\ call' = PostRequest("TextInput", Trim(inputText), SubmitSettings)
    /\ UNCHANGED <<extractedText, plagiarismResults, activeTab, isExtracting>>
    /\ UNCHANGED <<textVars, previous, inputText, uploadVars>>

\* TextInput.handleSubmit calling handleTextSubmit up to its await.
handleSubmit ==
    /\ activeTab = "text"
    /\ ~isChecking
    /\ Trim(inputText) # <<>>
    /\ isChecking' = TRUE
    /\ call' = PostRequest("TextInput", Trim(inputText), SubmitSettings)
    /\ UNCHANGED <<extractedText, plagiarismResults, activeTab, isExtracting>>
    /\ UNCHANGED <<textVars, previous, inputText, uploadVars>>

\* The check button of the extracted-text panel, up to its await.
checkButtonClick ==
    /\ extractedText # <<>>
    /\ ~isChecking
    /\ isChecking' = TRUE
    /\ call' = PostRequest("panel", extractedText, NoOptions)
    /\ UNCHANGED <<extractedText, plagiarismResults, activeTab, isExtracting>>
    /\ UNCHANGED <<textVars, previous, inputText, uploadVars>>

\* checkSettles with setIsChecking(false) after the await instead of in a
\* finally block: a check that throws leaves isChecking true.
checkSettles_NoFinally ==
    /\ call.pc = "awaiting"
    /\ \E resp \in PageResponses :
          /\ call' = Settle(call, resp)
          /\ plagiarismResults' =
                IF call'.pc = "returned" THEN call'.result ELSE plagiarismResults
          /\ isChecking' = (call'.pc # "returned")
    /\ UNCHANGED <<extractedText, activeTab, isExtracting>>
    /\ UNCHANGED <<textVars, previous, inputText, uploadVars>>

\* The POST settles: the rest of checkPlagiarism, then the rest of the handler
\* that awaited it (handleTextSubmit or the check button's onClick).
checkSettles ==
    /\ call.pc = "awaiting"
    /\ \E resp \in PageResponses :
          /\ call' = Settle(call, resp)
          /\ plagiarismResults' =
                IF call'.pc = "returned" THEN call'.result ELSE plagiarismResults
    /\ isChecking' = FALSE
    /\ UNCHANGED <<extractedText, activeTab, isExtracting>>
    /\ UNCHANGED <<textVars, previous, inputText, uploadVars>>

handleClearText ==
    /\ extractedText # <<>>
    /\ extractedText' = <<>>
    /\ plagiarismResults' = <<>>
    /\ call' = Supersede(call)
    /\ UNCHANGED <<isChecking, activeTab, isExtracting>>
    /\ UNCHANGED <<textVars, previous, inputText, uploadVars>>

\* onDrop without the size test of lines 29-32.
onDrop_NoSizeLimit(file) ==
    /\ activeTab = "upload"
    /\ uploadedFile = <<>>
    /\ ~isExtracting
    /\ extractionStatus # "uploading"
    /\ IF file.type # "application/pdf"
       THEN UNCHANGED <<uploadVars, isExtracting>>
       ELSE /\ uploadedFile' = <<file>>
            /\ extractionStatus' = "uploading"
            /\ isExtracting' = TRUE
            /\ extraction' = [pc |-> "awaiting", mounted |-> TRUE, toast |-> "none"]
    /\ UNCHANGED <<extractedText, plagiarismResults, isChecking, activeTab>>
    /\ UNCHANGED <<textVars, previous, call, inputText>>

\* FileUpload.onDrop up to its await: a file that is not a PDF or is larger
\* than the limit is refused; an accepted one starts handleFileUpload.
onDrop(file) ==
    /\ activeTab = "upload"
    /\ uploadedFile = <<>>
    /\ ~isExtracting
    /\ extractionStatus # "uploading"
    /\ IF file.type # "application/pdf" \/ file.sizeMB > MaxFileSizeMB
       THEN UNCHANGED <<uploadVars, isExtracting>>
       ELSE /\ uploadedFile' = <<file>>
            /\ extractionStatus' = "uploading"
            /\ isExtracting' = TRUE
            /\ extraction' = [pc |-> "awaiting", mounted |-> TRUE, toast |-> "none"]
    /\ UNCHANGED <<extractedText, plagiarismResults, isChecking, activeTab>>
    /\ UNCHANGED <<textVars, previous, call, inputText>>

\* extractSettles with a handleFileUpload that resets the page when the
\* extraction fails.
extractSettles_ResetsOnFailure ==
    /\ extraction.pc = "awaiting"
    /\ \/ \E t \in ExtractTexts :
             /\ extractedText' = t
             /\ plagiarismResults' = <<>>
             /\ inputText' = IF activeTab = "text" /\ t # extractedText
                             THEN TextAfterEffect(inputText, t) ELSE inputText
             /\ call' = Supersede(call)
             /\ extraction' = [extraction EXCEPT !.pc = "returned", !.toast = "success"]
       \/ /\ extractedText' = <<>>
          /\ plagiarismResults' = <<>>
          /\ UNCHANGED <<inputText, call>>
          /\ extraction' = [extraction EXCEPT !.pc = "threw", !.toast = "success"]
    /\ isExtracting' = FALSE
    /\ extractionStatus' = IF extraction.mounted THEN "success" ELSE extractionStatus
    /\ UNCHANGED <<isChecking, activeTab, uploadedFile>>
    /\ UNCHANGED <<textVars, previous>>

\* extractText settles: the rest of handleFileUpload, which swallows a failure
\* (lines 23-24), then the rest of onDrop: its await resolves either way, so it
\* sets 'success' (when the FileUpload that started it is still mounted) and
\* shows the success toast.
extractSettles ==
    /\ extraction.pc = "awaiting"
    /\ \/ \E t \in ExtractTexts :
             /\ extractedText' = t
             /\ plagiarismResults' = <<>>
             /\ inputText' = IF activeTab = "text" /\ t # extractedText
                             THEN TextAfterEffect(inputText, t) ELSE inputText
             /\ call' = Supersede(call)
             /\ extraction' = [extraction EXCEPT !.pc = "returned", !.toast = "success"]
       \/ /\ UNCHANGED <<extractedText, plagiarismResults, inputText, call>>
          /\ extraction' = [extraction EXCEPT !.pc = "threw", !.toast = "success"]
    /\ isExtracting' = FALSE
    /\ extractionStatus' = IF extraction.mounted THEN "success" ELSE extractionStatus
    /\ UNCHANGED <<isChecking, activeTab, uploadedFile>>
    /\ UNCHANGED <<textVars, previous>>

\* removeFile with a remove button that is rendered whatever the status.
removeFile_Unguarded ==
    /\ activeTab = "upload"
    /\ uploadedFile # <<>>
    /\ uploadedFile' = <<>>
    /\ extractionStatus' = "idle"
    /\ UNCHANGED <<extraction, homeVars>>
    /\ UNCHANGED <<textVars, previous, call, inputText>>

removeFile ==
    /\ activeTab = "upload"
    /\ uploadedFile # <<>>
    /\ ~isExtracting
    /\ extractionStatus # "uploading"
    /\ uploadedFile' = <<>>
    /\ extractionStatus' = "idle"
    /\ UNCHANGED <<extraction, homeVars>>
    /\ UNCHANGED <<textVars, previous, call, inputText>>

Init ==
    /\ text = <<>>
    /\ applied = 0
    /\ sentences = <<>>
    /\ call = IdleCall
    /\ previous = IdleCall
    /\ PageInit

Next ==
    \/ \E tab \in {"upload", "text"} : setActiveTab(tab)
    \/ \E t \in InputTexts : setText(t)
    \/ handleSubmit
    \/ checkButtonClick
    \/ checkSettles
    \/ handleClearText
    \/ \E file \in Files : onDrop(file)
    \/ extractSettles
    \/ removeFile

Spec == Init /\ [][Next]_vars

\* The axios instance has a timeout (line 22): a request that is neither
\* answered nor refused is rejected after 300000 ms, so every POST settles.
LiveSpec == Spec /\ WF_vars(checkSettles)

\* C22: every check started from the page ends, with a report or an error, and
\* isChecking is false again when it has ended.
C22_CheckEnds ==
    (call.pc = "awaiting") ~> (call.pc \in {"returned", "threw"} /\ ~isChecking)

\* A check that ran into the timeout has ended with an error.
C22_Witness ==
    /\ call.pc = "threw"
    /\ call.response[1].kind = "timeout"
    /\ ~isChecking

\* C7: when the backend signals that the check failed, checkPlagiarism throws,
\* returns no report and shows no success toast, and the page keeps the
\* plagiarismResults it had.
C7_FailureNeverEmptyReport ==
    [][(call.pc = "awaiting" /\ call'.pc # "awaiting"
            /\ SignalsFailure(call'.response[1]))
        => (/\ call'.pc = "threw"
            /\ call'.result = <<>>
            /\ ~call'.toastSuccess
            /\ plagiarismResults' = plagiarismResults)]_vars

\* A failed check leaves the report of an earlier check on display.
C7_Witness ==
    /\ call.pc = "threw"
    /\ SignalsFailure(call.response[1])
    /\ plagiarismResults # <<>>

WithinLimits(file) == file.type = "application/pdf" /\ file.sizeMB <= MaxFileSizeMB

\* C20: an extraction starts only from a FileUpload without file and with
\* status 'idle', and only for a PDF of at most 50 MB; FileUpload never holds a
\* file outside the limits, and while it holds no file its status is 'idle'.
C20_LimitsBeforeExtraction ==
    [][/\ (extraction.pc # "awaiting" /\ extraction'.pc = "awaiting") =>
            (/\ uploadedFile = <<>> /\ extractionStatus = "idle"
             /\ uploadedFile' # <<>> /\ WithinLimits(uploadedFile'[1]))
       /\ (uploadedFile' # <<>> => WithinLimits(uploadedFile'[1]))
       /\ (uploadedFile' = <<>> => extractionStatus' = "idle")]_vars

\* The extraction of a PDF of exactly 50 MB is under way.
C20_Witness ==
    /\ extraction.pc = "awaiting"
    /\ uploadedFile = <<[type |-> "application/pdf", sizeMB |-> MaxFileSizeMB]>>
    /\ extractionStatus = "uploading"

\* C24: when extractText throws inside handleFileUpload, FileUpload's status
\* becomes 'error' (for a FileUpload that is still mounted), never 'success',
\* and FileUpload shows no success toast for the upload.
C24_ExtractionFailureIsError ==
    [][(extraction.pc = "awaiting" /\ extraction'.pc = "threw") =>
          (/\ extraction.mounted => extractionStatus' = "error"
           /\ extractionStatus' # "success"
           /\ extraction'.toast # "success")]_vars

\* C25: a check that was in flight when a new extraction succeeded or
\* handleClearText ran does not install its result when it settles.
C25_NoStaleReport ==
    [][(call.pc = "awaiting" /\ call.superseded /\ call'.pc # "awaiting")
          => plagiarismResults' = plagiarismResults]_vars

\* C26: no /check-plagiarism request starts while one is in flight or
\* isChecking is true, and no /extract-text request starts while one is in
\* flight or isExtracting is true; each flag is true exactly while a request of
\* its kind is in flight.
C26_OneInFlight ==
    [][/\ (call.pc = "awaiting" /\ call'.pc = "awaiting") =>
            call' \in {call, Supersede(call)}
       /\ (call.pc # "awaiting" /\ call'.pc = "awaiting") => ~isChecking
       /\ isChecking' <=> call'.pc = "awaiting"
       /\ (extraction.pc = "awaiting" /\ extraction'.pc = "awaiting") =>
            extraction' \in {extraction, [extraction EXCEPT !.mounted = FALSE]}
       /\ (extraction.pc # "awaiting" /\ extraction'.pc = "awaiting") => ~isExtracting
       /\ isExtracting' <=> extraction'.pc = "awaiting"]_vars

\* One request of each kind is in flight, the extraction started by a
\* FileUpload that has been unmounted since.
C26_Witness ==
    /\ call.pc = "awaiting" /\ isChecking
    /\ extraction.pc = "awaiting" /\ isExtracting
    /\ ~extraction.mounted
    /\ activeTab = "upload"

\* C27: a failed extraction leaves extractedText and plagiarismResults as they
\* were, a failed check leaves plagiarismResults as it was; of the state of
\* HomePage only the busy flag of the failed request changes, to false.
C27_FailureFrame ==
    [][/\ (extraction.pc = "awaiting" /\ extraction'.pc = "threw") =>
            (/\ extractedText' = extractedText
             /\ plagiarismResults' = plagiarismResults
             /\ isChecking' = isChecking /\ activeTab' = activeTab
             /\ isExtracting /\ ~isExtracting')
       /\ (call.pc = "awaiting" /\ call'.pc = "threw") =>
            (/\ plagiarismResults' = plagiarismResults
             /\ extractedText' = extractedText
             /\ isExtracting' = isExtracting /\ activeTab' = activeTab
             /\ isChecking /\ ~isChecking')]_vars

\* An extraction has failed while a text and its report are on display.
C27_Witness ==
    /\ extraction.pc = "threw"
    /\ ~isExtracting
    /\ extractedText # <<>>
    /\ plagiarismResults # <<>>

\* C28: every request a check started from the page has posted carries a text
\* that is non-empty after trimming.
C28_RequestTextNonEmpty ==
    call.pc # "idle" => Trim(call.request[1].text) # <<>>

\* The status changes the claim allows for a FileUpload.
StatusSteps ==
    {<<"idle", "uploading">>, <<"uploading", "success">>, <<"uploading", "error">>,
     <<"success", "idle">>, <<"error", "idle">>}

\* C30: while FileUpload stays mounted, uploadedFile is null exactly when the
\* status is 'idle', the status changes only by idle -> uploading ->
\* (success | error) and (success | error) -> idle, the status 'extracting' is
\* never reached, and the file is removed only when the status is not
\* 'uploading' and isProcessing is false.
C30_UploadStateMachine ==
    [][(activeTab = "upload" /\ activeTab' = "upload") =>
          (/\ (uploadedFile' = <<>>) <=> (extractionStatus' = "idle")
           /\ extractionStatus' # "extracting"
           /\ extractionStatus' # extractionStatus =>
                 <<extractionStatus, extractionStatus'>> \in StatusSteps
           /\ (uploadedFile # <<>> /\ uploadedFile' = <<>>) =>
                 (extractionStatus \in {"success", "error"} /\ ~isExtracting))]_vars

\* The file of a finished upload has been removed.
C30_Witness ==
    /\ activeTab = "upload"
    /\ extraction.pc \in {"returned", "threw"} /\ extraction.mounted
    /\ uploadedFile = <<>>
    /\ extractionStatus = "idle"

----------------------------------------------------------------------------
(* RepeatSpec: checkPlagiarism called twice in a row, each call with any    *)
(* bounded arguments and answered with any bounded response.                *)

RepeatOptions == {NoOptions, SubmitSettings}

TwoMatches ==
    <<BackendMatch(Num(50), Whole(1), Whole(2), Str("semantic"), Str("doc"), Str("ab"), Str("ab")),
      OneMatch>>

RepeatResponses ==
    PageResponses \cup
    {OkBody(TRUE, Num(50), TRUE, TwoMatches, NoAnalysis, Undef),
     OkBody(FALSE, Num(50), TRUE, <<OneMatch>>, BackendAnalysis(Num(60), Str("high"), Whole(3)), Num(120)),
     OkBody(FALSE, Undef, FALSE, <<>>, NoAnalysis, Undef)}

RepeatInit ==
    /\ text = <<>>
    /\ applied = 0
    /\ sentences = <<>>
    /\ call = IdleCall
    /\ previous = IdleCall
    /\ PageInit

RepeatCall ==
    /\ call.pc = "idle"
    /\ \E txt \in ApiTexts, options \in RepeatOptions :
          call' = PostRequest("api", txt, options)
    /\ UNCHANGED <<textVars, previous, pageVars>>

RepeatSettle ==
    /\ call.pc = "awaiting"
    /\ \E resp \in RepeatResponses : call' = Settle(call, resp)
    /\ UNCHANGED <<textVars, previous, pageVars>>

\* The caller has the outcome of the first call and calls again.
RepeatAgain ==
    /\ call.pc \in {"returned", "threw"}
    /\ previous.pc = "idle"
    /\ previous' = call
    /\ \E txt \in ApiTexts, options \in RepeatOptions :
          call' = PostRequest("api", txt, options)
    /\ UNCHANGED <<textVars, pageVars>>

RepeatDone ==
    /\ call.pc \in {"returned", "threw"}
    /\ previous.pc # "idle"
    /\ call' = IdleCall
    /\ previous' = IdleCall
    /\ UNCHANGED <<textVars, pageVars>>

RepeatNext == RepeatCall \/ RepeatSettle \/ RepeatAgain \/ RepeatDone

RepeatSpec == RepeatInit /\ [][RepeatNext]_vars

----------------------------------------------------------------------------
(* SentenceSpec: extractSentences applied to every bounded input string. *)

SentenceAlphabet == {"a", "b", SP, DANDA, BANG, QUESTION}

SentenceTexts(n) == UNION {[1..k -> SentenceAlphabet] : k \in 0..n}

SentenceInit ==
    /\ text \in SentenceTexts(MaxSentenceLen)
    /\ applied = 0
    /\ sentences = <<>>
    /\ call = IdleCall
    /\ previous = IdleCall
    /\ PageInit

SplitText ==
    /\ applied = 0
    /\ sentences' = extractSentences(text)
    /\ applied' = 1
    /\ UNCHANGED <<text, call, previous, pageVars>>

SentenceNext == SplitText

SentenceSpec == SentenceInit /\ [][SentenceNext]_vars

HasTerminator(s) == \E i \in 1..Len(s) : IsTerminator(s[i])

\* The segments occur in s from position from on, one after the other.
RECURSIVE InOrder(_, _, _)
InOrder(segs, s, from) ==
    \/ segs = <<>>
    \/ \E p \in from..(Len(s) - Len(Head(segs)) + 1) :
          /\ SubSeq(s, p, p + Len(Head(segs)) - 1) = Head(segs)
          /\ InOrder(Tail(segs), s, p + Len(Head(segs)))

\* C13: every segment extractSentences returns is non-empty, has no leading or
\* trailing whitespace and contains no terminator; the segments are pieces of
\* the text in the order of the text; a text that is empty or whitespace-only
\* yields no segment.
C13_SegmentsClean ==
    applied = 1 =>
        /\ \A i \in 1..Len(sentences) :
              /\ sentences[i] # <<>>
              /\ ~IsSpace(sentences[i][1])
              /\ ~IsSpace(sentences[i][Len(sentences[i])])
              /\ ~HasTerminator(sentences[i])
        /\ InOrder(sentences, text, 1)
        /\ (Trim(text) = <<>> => sentences = <<>>)

\* A text with two terminators, one of them followed by a space, split in two.
C13_Witness ==
    /\ applied = 1
    /\ text = <<"a", DANDA, SP, "b", QUESTION>>
    /\ sentences = << <<"a">>, <<"b">> >>

\* C14 as claimed: a text without a terminator yields exactly one segment, the
\* whole text.
C14_OneSegmentWholeText ==
    (applied = 1 /\ ~HasTerminator(text)) => sentences = <<text>>

\* C14 as amended: a text without a terminator yields one segment, the text
\* without its leading and trailing whitespace, unless the text is empty or
\* whitespace-only, which yields no segment.
C14_OneSegmentTrimmed ==
    (applied = 1 /\ ~HasTerminator(text)) =>
        sentences = IF Trim(text) = <<>> THEN <<>> ELSE <<Trim(text)>>

C14_Witness ==
    /\ applied = 1
    /\ text = <<SP, "a", SP, "b">>
    /\ sentences = << <<"a", SP, "b">> >>

----------------------------------------------------------------------------
(* TextSpec: preprocessBanglaText applied to every bounded input string. *)

TextInit ==
    /\ text \in Texts(MaxTextLen)
    /\ applied = 0
    /\ sentences = <<>>
    /\ call = IdleCall
    /\ previous = IdleCall
    /\ PageInit

Normalize ==
    /\ applied < MaxApply
    /\ text' = preprocessBanglaText(text)
    /\ applied' = applied + 1
    /\ UNCHANGED <<sentences, call, previous, pageVars>>

TextNext == Normalize

TextSpec == TextInit /\ [][TextNext]_vars

\* C1: normalization is idempotent: applying preprocessBanglaText to a text
\* that is already an output of preprocessBanglaText leaves it unchanged.
C1_Idempotent == [][(applied >= 1 /\ applied' = applied + 1) => text' = text]_vars

\* The sentence terminators of s, in order.
Terminators(s) == SelectSeq(s, IsTerminator)

\* s has no whitespace character but single spaces between non-space characters.
SingleSpaced(s) ==
    \A i \in 1..Len(s) :
        IsSpace(s[i]) =>
            /\ s[i] = SP
            /\ i > 1 /\ ~IsSpace(s[i - 1])
            /\ i < Len(s) /\ ~IsSpace(s[i + 1])

\* C15: the output of preprocessBanglaText has no run of two or more whitespace
\* characters and no whitespace but single spaces between non-space characters,
\* and it keeps every sentence terminator of the input.
C15_WhitespaceCollapsed ==
    [][(applied' = applied + 1) =>
          (SingleSpaced(text') /\ Terminators(text') = Terminators(text))]_vars

====
